---------------------------- MODULE Spec2Model ----------------------------
(***************************************************************************)
(* The three-agent documentation pipeline (app/agents.py) and the Gradio   *)
(* "generate" handler that drives it and persists the result (app.py).     *)
(*                                                                         *)
(* A text is a sequence of tokens: a token is one character of user or     *)
(* model text, or one literal chunk of a prompt template / status string.  *)
(* Every run is one coroutine; an action is the code a coroutine executes  *)
(* between two suspension points (an await on Runner.run, or a yield to    *)
(* the consumer), which asyncio runs without interleaving.                 *)
(***************************************************************************)
EXTENDS Naturals, Sequences, FiniteSets, TLC

(* ------------------------------ bounds -------------------------------- *)
MaxCodeLen == 2
MaxOutLen == 1
MaxTick == 2
TicksPerSecond == 2

(* ------------------------------ texts --------------------------------- *)
StrUpTo(A, n) == UNION {[1..k -> A] : k \in 0..n}

CodeAlphabet == {" ", "x"}
OutAlphabet == {" ", "d"}
Codes == StrUpTo(CodeAlphabet, MaxCodeLen)
Outputs == StrUpTo(OutAlphabet, MaxOutLen)
Languages == {"Python", "JavaScript"}

\* the inputs of the two-run specification
ConcCodes == {<<" ">>, <<"x">>}
ConcLanguages == {"Python", "JavaScript"}
ConcOutputs == {<<"d">>, <<"e">>}

Runs == {1, 2}
SoloRuns == {1}

None == <<>>
NoFile == <<"None">>

\* str.strip(): drop leading and trailing whitespace characters
Whitespace == {" ", "\t", "\n", "\r", "\f"}

RECURSIVE LStrip(_)
LStrip(s) == IF s = <<>> THEN s
             ELSE IF Head(s) \in Whitespace THEN LStrip(Tail(s)) ELSE s

RECURSIVE RStrip(_)
RStrip(s) == IF s = <<>> THEN s
             ELSE IF s[Len(s)] \in Whitespace
                  THEN RStrip(SubSeq(s, 1, Len(s) - 1)) ELSE s

\* the guard written as `if not code:`, without the strip
Strip_Skipped(s) == s

Strip(s) == RStrip(LStrip(s))

\* str.upper() on the two language labels of the dropdown
Upper(l) == CASE l = "Python" -> "PYTHON"
              [] l = "JavaScript" -> "JAVASCRIPT"
              [] OTHER -> l

(* ------------------------ agents and templates ------------------------ *)
code_analyst == "Code Analyst"
doc_writer == "Documentation Writer"
quality_reviewer == "Quality Reviewer"

RP_Warning == <<"No code was provided. Please paste or upload a file.">>
SP_Warning == <<"No code was provided. Please paste or upload a file.">>
G_Warning == <<"Please paste code or upload a file first.">>

Step1 == <<"Step 1 of 3 - Code Analyst is reading your code...">>
Step2 == <<"Step 2 of 3 - Documentation Writer is drafting the docs...">>
Step3 == <<"Step 3 of 3 - Quality Reviewer is checking and polishing...">>

\* the f-strings of run_pipeline
RP_AnalystInput(l, c) ==
    <<"Analyse this ", l, " code thoroughly:\n\n">> \o c

RP_WriterInput(l, a, c) ==
    <<"Write complete professional documentation using this analysis:\n\n--- ANALYSIS ---\n">>
    \o a \o <<"\n\n--- ORIGINAL ", Upper(l), " CODE (for reference) ---\n">> \o c

RP_ReviewerInput(l, d, c) ==
    <<"Review and polish this documentation against the original code.\n\n--- DOCUMENTATION TO REVIEW ---\n">>
    \o d \o <<"\n\n--- ORIGINAL ", Upper(l), " CODE ---\n">> \o c

\* the f-strings of stream_pipeline
SP_AnalystInput(l, c) ==
    <<"Analyse this ", l, " code thoroughly:\n\n">> \o c

\* the Writer prompt built without the analysis
SP_WriterInput_NoAnalysis(l, a, c) ==
    <<"Write complete professional documentation using this analysis:\n\n--- ANALYSIS ---\n">>
    \o <<"\n\n--- ORIGINAL ", Upper(l), " CODE (for reference) ---\n">> \o c

SP_WriterInput(l, a, c) ==
    <<"Write complete professional documentation using this analysis:\n\n--- ANALYSIS ---\n">>
    \o a \o <<"\n\n--- ORIGINAL ", Upper(l), " CODE (for reference) ---\n">> \o c

SP_ReviewerInput(l, d, c) ==
    <<"Review and polish this documentation against the original code.\n\n--- DOCUMENTATION TO REVIEW ---\n">>
    \o d \o <<"\n\n--- ORIGINAL ", Upper(l), " CODE ---\n">> \o c

(* ------------------------------- state -------------------------------- *)
VARIABLES
    pc,             \* run -> position of its coroutine
    entry,          \* run -> the function the caller invoked
    code,           \* run -> the code argument of the driver
    language,       \* run -> the language argument
    analysis,       \* run -> analysis_result.final_output
    draft_docs,     \* run -> doc_result.final_output
    review,         \* run -> review_result.final_output
    final_output,   \* run -> generate's final_output
    download_path,  \* run -> generate's download_path
    log,            \* run -> what the run did that its environment can see
    now,            \* the wall clock, in ticks
    dirs,           \* the directories that exist
    files           \* path -> text of the file at that path

vars == <<pc, entry, code, language, analysis, draft_docs, review,
          final_output, download_path, log, now, dirs, files>>

locals == <<analysis, draft_docs, review>>
disk == <<dirs, files>>

(* ------------------------------ events -------------------------------- *)
Ev(k, w, t, p) == [kind |-> k, who |-> w, text |-> t, path |-> p]
CallEv(agent, input) == Ev("call", agent, input, None)
RetEv(agent, out) == Ev("ret", agent, out, None)
RaiseEv(agent) == Ev("raise", agent, <<>>, None)
YieldEv(v) == Ev("yield", "stream_pipeline", v, None)
ReturnEv(v) == Ev("return", "run_pipeline", v, None)
UiEv(t, p) == Ev("ui", "generate", t, p)

Append2(lg, evs) == lg \o evs

(* ------------------------------ storage ------------------------------- *)
\* datetime.now().strftime("%Y%m%d_%H%M%S"): the clock cut to whole seconds
Timestamp(t) == ToString(t \div TicksPerSecond)

FilePath(t) == <<"temp", "/", "documentation_", Timestamp(t), ".md">>

\* open(filepath, "w") then write: the file is created or replaced
WriteFile(fs, p, content) ==
    [q \in DOMAIN fs \cup {p} |-> IF q = p THEN content ELSE fs[q]]

save_documentation(r, content) ==
    /\ dirs' = dirs \cup {"temp"}
    /\ files' = WriteFile(files, FilePath(now), content)
    /\ download_path' = [download_path EXCEPT ![r] = FilePath(now)]

(* ------------------------------- Init --------------------------------- *)
Init ==
    /\ pc = [r \in Runs |-> "idle"]
    /\ entry = [r \in Runs |-> "none"]
    /\ code = [r \in Runs |-> <<>>]
    /\ language = [r \in Runs |-> "none"]
    /\ analysis = [r \in Runs |-> <<>>]
    /\ draft_docs = [r \in Runs |-> <<>>]
    /\ review = [r \in Runs |-> <<>>]
    /\ final_output = [r \in Runs |-> <<>>]
    /\ download_path = [r \in Runs |-> None]
    /\ log = [r \in Runs |-> <<>>]
    /\ now = 0
    /\ dirs = {}
    /\ files = <<>>

Enter(r, e, c, l) ==
    /\ pc[r] = "idle"
    /\ entry' = [entry EXCEPT ![r] = e]
    /\ code' = [code EXCEPT ![r] = c]
    /\ language' = [language EXCEPT ![r] = l]

(* ---------------------------- run_pipeline ---------------------------- *)
RunPipeline(r, c, l) ==
    /\ Enter(r, "run_pipeline", c, l)
    /\ IF Strip(c) = <<>>
       THEN /\ log' = [log EXCEPT ![r] = <<ReturnEv(RP_Warning)>>]
            /\ pc' = [pc EXCEPT ![r] = "done"]
       ELSE /\ log' = [log EXCEPT ![r] =
                          <<CallEv(code_analyst, RP_AnalystInput(l, c))>>]
            /\ pc' = [pc EXCEPT ![r] = "await1"]
    /\ UNCHANGED <<locals, final_output, download_path, now, disk>>

RP_Analysed(r, out) ==
    /\ pc[r] = "await1" /\ entry[r] = "run_pipeline"
    /\ analysis' = [analysis EXCEPT ![r] = out]
    /\ log' = [log EXCEPT ![r] = Append2(@,
                 <<RetEv(code_analyst, out),
                   CallEv(doc_writer,
                          RP_WriterInput(language[r], out, code[r]))>>)]
    /\ pc' = [pc EXCEPT ![r] = "await2"]
    /\ UNCHANGED <<entry, code, language, draft_docs, review, final_output,
                   download_path, now, disk>>

RP_Drafted(r, out) ==
    /\ pc[r] = "await2" /\ entry[r] = "run_pipeline"
    /\ draft_docs' = [draft_docs EXCEPT ![r] = out]
    /\ log' = [log EXCEPT ![r] = Append2(@,
                 <<RetEv(doc_writer, out),
                   CallEv(quality_reviewer,
                          RP_ReviewerInput(language[r], out, code[r]))>>)]
    /\ pc' = [pc EXCEPT ![r] = "await3"]
    /\ UNCHANGED <<entry, code, language, analysis, review, final_output,
                   download_path, now, disk>>

\* run_pipeline returning the draft instead of the reviewed text
RP_Result_Draft(a, d, v) == d

RP_Result(a, d, v) == v

RP_Reviewed(r, out) ==
    /\ pc[r] = "await3" /\ entry[r] = "run_pipeline"
    /\ review' = [review EXCEPT ![r] = out]
    /\ log' = [log EXCEPT ![r] = Append2(@,
                 <<RetEv(quality_reviewer, out),
                   ReturnEv(RP_Result(analysis[r], draft_docs[r], out))>>)]
    /\ pc' = [pc EXCEPT ![r] = "done"]
    /\ UNCHANGED <<entry, code, language, analysis, draft_docs, final_output,
                   download_path, now, disk>>

(* --------------------------- stream_pipeline -------------------------- *)
\* a loop body that offers a download path with every chunk
GenerateLoopBody_EarlyPath(e, chunk) ==
    IF e = "generate" THEN <<UiEv(chunk, FilePath(now))>> ELSE <<>>

\* generate's loop body, run on every chunk stream_pipeline hands it:
\* final_output = chunk; yield (chunk, None)
GenerateLoopBody(e, chunk) ==
    IF e = "generate" THEN <<UiEv(chunk, None)>> ELSE <<>>

\* the status string sent before the previous stage's result is awaited
Emit_BeforeAwait(r, e, before, chunk) ==
    /\ log' = [log EXCEPT ![r] =
                 Append2(@, <<YieldEv(chunk)>> \o GenerateLoopBody(e, chunk)
                            \o before)]
    /\ final_output' = [final_output EXCEPT ![r] =
                          IF e = "generate" THEN chunk ELSE @]

\* stream_pipeline yields chunk, after doing `before`; the generator and its
\* consumer run to the consumer's next suspension in one step
Emit(r, e, before, chunk) ==
    /\ log' = [log EXCEPT ![r] =
                 Append2(@, before \o <<YieldEv(chunk)>>
                            \o GenerateLoopBody(e, chunk))]
    /\ final_output' = [final_output EXCEPT ![r] =
                          IF e = "generate" THEN chunk ELSE @]

\* stream_pipeline from its first line to its first yield
SP_Begin(r, e, c) ==
    IF Strip(c) = <<>>
    THEN /\ Emit(r, e, <<>>, SP_Warning)
         /\ pc' = [pc EXCEPT ![r] = "warned"]
    ELSE /\ Emit(r, e, <<>>, Step1)
         /\ pc' = [pc EXCEPT ![r] = "yield1"]

StreamPipeline(r, c, l) ==
    /\ Enter(r, "stream_pipeline", c, l)
    /\ SP_Begin(r, "stream_pipeline", c)
    /\ UNCHANGED <<locals, download_path, now, disk>>

Streaming(r) == entry[r] \in {"stream_pipeline", "generate"}

SP_Invoke1(r) ==
    /\ pc[r] = "yield1" /\ Streaming(r)
    /\ log' = [log EXCEPT ![r] = Append2(@,
                 <<CallEv(code_analyst,
                          SP_AnalystInput(language[r], code[r]))>>)]
    /\ pc' = [pc EXCEPT ![r] = "await1"]
    /\ UNCHANGED <<entry, code, language, locals, final_output,
                   download_path, now, disk>>

SP_Analysed(r, out) ==
    /\ pc[r] = "await1" /\ Streaming(r)
    /\ analysis' = [analysis EXCEPT ![r] = out]
    /\ Emit(r, entry[r], <<RetEv(code_analyst, out)>>, Step2)
    /\ pc' = [pc EXCEPT ![r] = "yield2"]
    /\ UNCHANGED <<entry, code, language, draft_docs, review,
                   download_path, now, disk>>

SP_Invoke2(r) ==
    /\ pc[r] = "yield2" /\ Streaming(r)
    /\ log' = [log EXCEPT ![r] = Append2(@,
                 <<CallEv(doc_writer,
                          SP_WriterInput(language[r], analysis[r], code[r]))>>)]
    /\ pc' = [pc EXCEPT ![r] = "await2"]
    /\ UNCHANGED <<entry, code, language, locals, final_output,
                   download_path, now, disk>>

SP_Drafted(r, out) ==
    /\ pc[r] = "await2" /\ Streaming(r)
    /\ draft_docs' = [draft_docs EXCEPT ![r] = out]
    /\ Emit(r, entry[r], <<RetEv(doc_writer, out)>>, Step3)
    /\ pc' = [pc EXCEPT ![r] = "yield3"]
    /\ UNCHANGED <<entry, code, language, analysis, review,
                   download_path, now, disk>>

SP_Invoke3(r) ==
    /\ pc[r] = "yield3" /\ Streaming(r)
    /\ log' = [log EXCEPT ![r] = Append2(@,
                 <<CallEv(quality_reviewer,
                          SP_ReviewerInput(language[r], draft_docs[r],
                                           code[r]))>>)]
    /\ pc' = [pc EXCEPT ![r] = "await3"]
    /\ UNCHANGED <<entry, code, language, locals, final_output,
                   download_path, now, disk>>

\* the final yield handing out the draft instead of the reviewed text
SP_Final_Draft(a, d, v) == d

SP_Final(a, d, v) == v

SP_Reviewed(r, out) ==
    /\ pc[r] = "await3" /\ Streaming(r)
    /\ review' = [review EXCEPT ![r] = out]
    /\ Emit(r, entry[r], <<RetEv(quality_reviewer, out)>>,
            SP_Final(analysis[r], draft_docs[r], out))
    /\ pc' = [pc EXCEPT ![r] = "yield4"]
    /\ UNCHANGED <<entry, code, language, analysis, draft_docs,
                   download_path, now, disk>>

\* the caller of a bare stream_pipeline asks for the next value and the
\* generator ends
SP_Exhausted(r) ==
    /\ pc[r] \in {"yield4", "warned"} /\ entry[r] = "stream_pipeline"
    /\ pc' = [pc EXCEPT ![r] = "done"]
    /\ UNCHANGED <<entry, code, language, locals, final_output,
                   download_path, log, now, disk>>

(* ------------------------- the inference call ------------------------- *)
Awaiting == {"await1", "await2", "await3"}

AgentAt(p) == CASE p = "await1" -> code_analyst
                [] p = "await2" -> doc_writer
                [] OTHER -> quality_reviewer

\* a handler around the loop of generate that saves what it has so far
RunnerRaise_Salvage(r) ==
    /\ pc[r] \in Awaiting
    /\ log' = [log EXCEPT ![r] = Append(@, RaiseEv(AgentAt(pc[r])))]
    /\ pc' = [pc EXCEPT ![r] = "raised"]
    /\ IF entry[r] = "generate"
       THEN save_documentation(r, final_output[r])
       ELSE UNCHANGED <<download_path, disk>>
    /\ UNCHANGED <<entry, code, language, locals, final_output, now>>

\* a driver that calls the failed stage again
RunnerRaise_Retry(r) ==
    /\ pc[r] \in Awaiting
    /\ log' = [log EXCEPT ![r] =
                 Append2(@, <<RaiseEv(AgentAt(pc[r])),
                              CallEv(AgentAt(pc[r]), code[r])>>)]
    /\ UNCHANGED <<pc, entry, code, language, locals, final_output,
                   download_path, now, disk>>

\* Runner.run raises: neither driver nor generate has a handler, so the
\* exception leaves the run
RunnerRaise(r) ==
    /\ pc[r] \in Awaiting
    /\ log' = [log EXCEPT ![r] = Append(@, RaiseEv(AgentAt(pc[r])))]
    /\ pc' = [pc EXCEPT ![r] = "raised"]
    /\ UNCHANGED <<entry, code, language, locals, final_output,
                   download_path, now, disk>>

(* ------------------------------ generate ------------------------------ *)
\* the pasted text preferred over the upload whenever something was pasted
EffectiveCode_PasteFirst(code_input, file_input) ==
    IF code_input # <<>> THEN code_input
    ELSE IF file_input # NoFile THEN file_input ELSE code_input

EffectiveCode(code_input, file_input) ==
    IF file_input # NoFile THEN file_input ELSE code_input

Generate(r, code_input, file_input, l) ==
    LET c == EffectiveCode(code_input, file_input) IN
    /\ Enter(r, "generate", c, l)
    /\ IF Strip(c) = <<>>
       THEN /\ log' = [log EXCEPT ![r] = <<UiEv(G_Warning, None)>>]
            /\ pc' = [pc EXCEPT ![r] = "g_warned"]
            /\ UNCHANGED final_output
       ELSE SP_Begin(r, "generate", c)
    /\ UNCHANGED <<locals, download_path, now, disk>>

\* the save guard written as `if final_output:`, without the strip
ShouldSave_Unstripped(text) == text # <<>>

\* whether generate persists the text it ended the loop with
ShouldSave(text) == Strip(text) # <<>>

\* the loop of generate ends with the generator; save and offer the download
G_AfterLoop(r) ==
    /\ pc[r] \in {"yield4", "warned"} /\ entry[r] = "generate"
    /\ IF ShouldSave(final_output[r])
       THEN /\ save_documentation(r, final_output[r])
            /\ log' = [log EXCEPT ![r] =
                         Append(@, UiEv(final_output[r], FilePath(now)))]
            /\ pc' = [pc EXCEPT ![r] = "offered"]
       ELSE /\ pc' = [pc EXCEPT ![r] = "done"]
            /\ UNCHANGED <<download_path, log, disk>>
    /\ UNCHANGED <<entry, code, language, locals, final_output, now>>

G_Return(r) ==
    /\ pc[r] \in {"offered", "g_warned"} /\ entry[r] = "generate"
    /\ pc' = [pc EXCEPT ![r] = "done"]
    /\ UNCHANGED <<entry, code, language, locals, final_output,
                   download_path, log, now, disk>>

(* ------------------------------- clock -------------------------------- *)
Tick ==
    /\ now < MaxTick
    /\ now' = now + 1
    /\ UNCHANGED <<pc, entry, code, language, locals, final_output,
                   download_path, log, disk>>

(* --------------------------- specifications --------------------------- *)
\* one run, through any of the three entry points
Next ==
    \/ \E r \in SoloRuns, c \in Codes, l \in Languages : RunPipeline(r, c, l)
    \/ \E r \in SoloRuns, out \in Outputs : RP_Analysed(r, out)
    \/ \E r \in SoloRuns, out \in Outputs : RP_Drafted(r, out)
    \/ \E r \in SoloRuns, out \in Outputs : RP_Reviewed(r, out)
    \/ \E r \in SoloRuns, c \in Codes, l \in Languages : StreamPipeline(r, c, l)
    \/ \E r \in SoloRuns : SP_Invoke1(r)
    \/ \E r \in SoloRuns, out \in Outputs : SP_Analysed(r, out)
    \/ \E r \in SoloRuns : SP_Invoke2(r)
    \/ \E r \in SoloRuns, out \in Outputs : SP_Drafted(r, out)
    \/ \E r \in SoloRuns : SP_Invoke3(r)
    \/ \E r \in SoloRuns, out \in Outputs : SP_Reviewed(r, out)
    \/ \E r \in SoloRuns : SP_Exhausted(r)
    \/ \E r \in SoloRuns : RunnerRaise(r)
    \/ \E r \in SoloRuns, ci \in Codes, fi \in Codes \cup {NoFile},
          l \in Languages : Generate(r, ci, fi, l)
    \/ \E r \in SoloRuns : G_AfterLoop(r)
    \/ \E r \in SoloRuns : G_Return(r)
    \/ Tick

Spec == Init /\ [][Next]_vars

\* two runs side by side, on a handful of inputs
NextConc ==
    \/ \E r \in Runs, c \in ConcCodes, l \in ConcLanguages :
          RunPipeline(r, c, l)
    \/ \E r \in Runs, out \in ConcOutputs : RP_Analysed(r, out)
    \/ \E r \in Runs, out \in ConcOutputs : RP_Drafted(r, out)
    \/ \E r \in Runs, out \in ConcOutputs : RP_Reviewed(r, out)
    \/ \E r \in Runs, c \in ConcCodes, l \in ConcLanguages :
          StreamPipeline(r, c, l)
    \/ \E r \in Runs : SP_Invoke1(r)
    \/ \E r \in Runs, out \in ConcOutputs : SP_Analysed(r, out)
    \/ \E r \in Runs : SP_Invoke2(r)
    \/ \E r \in Runs, out \in ConcOutputs : SP_Drafted(r, out)
    \/ \E r \in Runs : SP_Invoke3(r)
    \/ \E r \in Runs, out \in ConcOutputs : SP_Reviewed(r, out)
    \/ \E r \in Runs : SP_Exhausted(r)
    \/ \E r \in Runs : RunnerRaise(r)
    \/ \E r \in Runs, ci \in ConcCodes, fi \in ConcCodes \cup {NoFile},
          l \in ConcLanguages : Generate(r, ci, fi, l)
    \/ \E r \in Runs : G_AfterLoop(r)
    \/ \E r \in Runs : G_Return(r)
    \/ Tick

SpecConc == Init /\ [][NextConc]_vars

(* ------------------------- reading the log ---------------------------- *)
OfKind(lg, k) == SelectSeq(lg, LAMBDA e : e.kind = k)
Calls(r) == OfKind(log[r], "call")
Rets(r) == OfKind(log[r], "ret")
Raises(r) == OfKind(log[r], "raise")
Yields(r) == OfKind(log[r], "yield")
UiYields(r) == OfKind(log[r], "ui")
Returns(r) == OfKind(log[r], "return")
Texts(evs) == [i \in 1..Len(evs) |-> evs[i].text]
Agents(evs) == [i \in 1..Len(evs) |-> evs[i].who]

(* --------------------- vocabulary of the properties ------------------- *)
\* a text that is empty once surrounding whitespace is trimmed
IsBlank(s) == \A i \in 1..Len(s) : s[i] \in Whitespace

\* s occurs in t as a contiguous piece
Contains(t, s) ==
    \E i \in 0..(Len(t) - Len(s)) : SubSeq(t, i + 1, i + Len(s)) = s

FixedWarning == <<"No code was provided. Please paste or upload a file.">>
StageOrder == <<code_analyst, doc_writer, quality_reviewer>>
Progress == <<Step1, Step2, Step3>>
Started(r) == pc[r] # "idle"
Driver(r) == entry[r] \in {"run_pipeline", "stream_pipeline"}
Succeeded(r) == Len(Rets(r)) = 3
Count(lg, k) == Len(OfKind(lg, k))
Before(r, i) == SubSeq(log[r], 1, i - 1)

(* ------------------------------- C1 ----------------------------------- *)
\* C1: when the code is empty after trimming whitespace, run_pipeline does
\* nothing but return the fixed warning, stream_pipeline does nothing but
\* yield that same warning once and end, and neither calls Runner.run.
C1_BlankInputWarnsWithoutCalls ==
    \A r \in Runs :
        (Started(r) /\ Driver(r) /\ IsBlank(code[r])) =>
            /\ Calls(r) = <<>>
            /\ entry[r] = "run_pipeline" =>
                  /\ pc[r] = "done"
                  /\ log[r] = <<ReturnEv(FixedWarning)>>
            /\ entry[r] = "stream_pipeline" =>
                  /\ pc[r] \in {"warned", "done"}
                  /\ log[r] = <<YieldEv(FixedWarning)>>

C1_Witness ==
    \E r \in Runs :
        /\ entry[r] = "stream_pipeline" /\ pc[r] = "done"
        /\ Len(code[r]) = 2 /\ IsBlank(code[r])
        /\ Texts(Yields(r)) = <<FixedWarning>>

C4_FailureLeavesNothingPersisted ==
    \A r \in Runs :
        (entry[r] = "generate" /\ Raises(r) # <<>>) =>
            /\ pc[r] = "raised"
            /\ log[r][Len(log[r])].kind = "raise"
            /\ download_path[r] = None
            /\ \A i \in 1..Len(UiYields(r)) : UiYields(r)[i].path = None
            /\ DOMAIN files = {}
            /\ dirs = {}

C4_Witness ==
    \E r \in Runs :
        /\ entry[r] = "generate" /\ pc[r] = "raised"
        /\ Len(Rets(r)) = 2
        /\ Raises(r)[1].who = quality_reviewer
(* ------------------------------- C5 ----------------------------------- *)
DocName(sec) == <<"temp", "/", "documentation_", ToString(sec), ".md">>
Seconds == 0..(now \div TicksPerSecond)
Completed(r) == entry[r] = "generate" /\ Succeeded(r)
                    /\ pc[r] \in {"offered", "done"}

\* C5 as stated: every run through generate whose three stages returned ends
\* with a file documentation_<timestamp>.md in the output directory holding
\* exactly the Reviewer's output, whatever that output is.
C5_AsStated ==
    \A r \in Runs :
        Completed(r) =>
            /\ \E sec \in Seconds : download_path[r] = DocName(sec)
            /\ download_path[r] \in DOMAIN files
            /\ files[download_path[r]] = Rets(r)[3].text

\* C5: a run through generate whose three stages returned has written the
\* Reviewer's output, and exactly it, to documentation_<timestamp>.md in
\* the output directory when that output is not blank, and has written
\* nothing when it is blank.
C5_SavedUnlessBlank ==
    \A r \in Runs :
        Completed(r) =>
            IF IsBlank(Rets(r)[3].text)
            THEN /\ download_path[r] = None
                 /\ DOMAIN files = {}
            ELSE /\ \E sec \in Seconds : download_path[r] = DocName(sec)
                 /\ "temp" \in dirs
                 /\ DOMAIN files = {download_path[r]}
                 /\ files[download_path[r]] = Rets(r)[3].text

C5_Witness ==
    \E r \in Runs :
        /\ Completed(r) /\ pc[r] = "done"
        /\ Rets(r)[3].text = <<"d">>
        /\ download_path[r] = DocName(1)
        /\ files[download_path[r]] = <<"d">>

(* ------------------------------- C6 ----------------------------------- *)
\* C6: runs do not disturb one another: the file a run persisted keeps
\* holding that run's own document, whatever the other runs do.
C6_RunsKeepTheirOwnFile ==
    \A r \in Runs :
        download_path[r] # None =>
            /\ download_path[r] \in DOMAIN files
            /\ files[download_path[r]] = final_output[r]

(* ------------------------------- C7 ----------------------------------- *)
NoPath(evs) == SelectSeq(evs, LAMBDA e : e.path = None)

\* C7: of the values generate yields for a run on non-blank code, those
\* without a download path are the pipeline's yielded texts, one for one
\* and unchanged; a download path comes only with the last value, after
\* the Reviewer returned, paired with the Reviewer's output and naming the
\* file this run wrote.
C7_DownloadOnlyOnCompletion ==
    \A r \in Runs :
        (entry[r] = "generate" /\ ~IsBlank(code[r])) =>
            LET ui == UiYields(r) IN
            /\ Texts(NoPath(ui)) = Texts(Yields(r))
            /\ \A i \in 1..Len(ui) :
                  ui[i].path # None =>
                      /\ i = Len(ui)
                      /\ i = Len(Yields(r)) + 1
                      /\ Succeeded(r)
                      /\ ui[i].text = Rets(r)[3].text
                      /\ ui[i].path = download_path[r]
                      /\ ui[i].path \in DOMAIN files
                      /\ files[ui[i].path] = ui[i].text
            /\ pc[r] \notin {"offered", "done"} =>
                  /\ Len(ui) = Len(Yields(r))
                  /\ download_path[r] = None

C7_Witness ==
    \E r \in Runs :
        /\ entry[r] = "generate" /\ pc[r] = "offered"
        /\ Len(UiYields(r)) = 5
        /\ UiYields(r)[5].path = DocName(0)
        /\ UiYields(r)[4].path = None
        /\ UiYields(r)[4].text = <<"d">>

(* ------------------------------- C8 ----------------------------------- *)
Ended(r) == pc[r] \in {"done", "raised"}
Responses(r) == SelectSeq(log[r], LAMBDA e : e.kind \in {"ret", "raise"})
LastText(evs) == evs[Len(evs)].text

\* C8: a finished run_pipeline run and a finished stream_pipeline run on the
\* same code and language that got the same responses made the same calls
\* with the same contexts, and what run_pipeline returned is the last value
\* stream_pipeline yielded; run_pipeline hands out nothing but that return.
C8_DriversAgree ==
    /\ \A r \in Runs :
          entry[r] = "run_pipeline" =>
              /\ Yields(r) = <<>> /\ UiYields(r) = <<>>
              /\ Len(Returns(r)) = (IF pc[r] = "done" THEN 1 ELSE 0)
    /\ \A r1, r2 \in Runs :
          ( /\ entry[r1] = "run_pipeline" /\ entry[r2] = "stream_pipeline"
            /\ code[r1] = code[r2] /\ language[r1] = language[r2]
            /\ Ended(r1) /\ Ended(r2)
            /\ Responses(r1) = Responses(r2) ) =>
              /\ Calls(r1) = Calls(r2)
              /\ pc[r1] = pc[r2]
              /\ pc[r1] = "done" =>
                    LastText(Returns(r1)) = LastText(Yields(r2))

C8_Witness ==
    \E r1, r2 \in Runs :
        /\ entry[r1] = "run_pipeline" /\ entry[r2] = "stream_pipeline"
        /\ pc[r1] = "done" /\ pc[r2] = "done"
        /\ code[r1] = <<"x">> /\ code[r2] = <<"x">>
        /\ Texts(Responses(r1)) = <<<<"d">>, <<"e">>, <<"d">>>>
        /\ Responses(r1) = Responses(r2)

(* ------------------------------- C9 ----------------------------------- *)
Outstanding(lg) == Count(lg, "call") - Count(lg, "ret") - Count(lg, "raise")

\* C9: in a stream_pipeline run on non-blank code the N-th value yielded is
\* the progress string of step N (N = 1..3), it is yielded when N-1 calls
\* have been made and all of them have returned, the N-th call is made
\* after it, and a run never has more than one call outstanding.
C9_ProgressThenStageNoOverlap ==
    \A r \in Runs :
        (Streaming(r) /\ ~IsBlank(code[r])) =>
            /\ \A n \in 1..3 :
                  Len(Yields(r)) >= n => Yields(r)[n].text = Progress[n]
            /\ \A i \in 1..Len(log[r]) :
                  LET b == Before(r, i)
                      e == log[r][i]
                  IN  /\ Count(b, "call") >= Count(b, "ret") + Count(b, "raise")
                      /\ Outstanding(SubSeq(log[r], 1, i)) \in {0, 1}
                      /\ e.kind = "call" =>
                            /\ Count(b, "yield") = Count(b, "call") + 1
                            /\ Count(b, "ret") = Count(b, "call")
                            /\ Count(b, "raise") = 0
                      /\ (e.kind = "yield" /\ Count(b, "yield") < 3) =>
                            /\ Count(b, "call") = Count(b, "yield")
                            /\ Count(b, "ret") = Count(b, "yield")

C9_Witness ==
    \E r \in Runs :
        /\ entry[r] = "stream_pipeline" /\ pc[r] = "await3"
        /\ Len(Yields(r)) = 3 /\ Len(Calls(r)) = 3 /\ Len(Rets(r)) = 2

(* ------------------------------- C10 ---------------------------------- *)
\* C10: a run calls each stage at most once and sees at most one failure;
\* once a call has failed the run is in the failed state, the failure is
\* the last thing it did, the failed call is the last call it made, and a
\* run_pipeline run has returned nothing.
C10_NoRetryNoSalvage ==
    \A r \in Runs :
        /\ \A i, j \in 1..Len(Calls(r)) :
              Calls(r)[i].who = Calls(r)[j].who => i = j
        /\ Len(Raises(r)) <= 1
        /\ pc[r] = "raised" <=> Raises(r) # <<>>
        /\ Raises(r) # <<>> =>
              /\ log[r][Len(log[r])].kind = "raise"
              /\ Raises(r)[1].who = Calls(r)[Len(Calls(r))].who
              /\ Len(Calls(r)) = Len(Rets(r)) + 1
              /\ Returns(r) = <<>>

C10_Witness ==
    \E r \in Runs :
        /\ entry[r] = "run_pipeline" /\ pc[r] = "raised"
        /\ Len(Calls(r)) = 2 /\ Raises(r)[1].who = doc_writer
(* ------------------------------- C11 ---------------------------------- *)
\* what the user submitted: the upload's content if there is one, else the
\* pasted text
Submitted(pasted, upload) == IF upload = NoFile THEN pasted ELSE upload

WarnedOnly(r) ==
    /\ pc'[r] \in {"g_warned", "done"}
    /\ log'[r] = <<UiEv(G_Warning, None)>>
    /\ G_Warning # FixedWarning
    /\ code'[r] # FixedWarning
    /\ download_path'[r] = None
    /\ DOMAIN files' = {}
    /\ dirs' = {}

\* C11: generate works on the uploaded file's content if a file was uploaded
\* and on the pasted text otherwise; when that code is blank, the one thing
\* the run ever does is yield generate's own warning with no download path:
\* no stream_pipeline yield, no remote call, no file, and the driver's
\* warning string is neither yielded nor written.
C11_BlankSubmissionStopsAtUi ==
    [][ \A r \in Runs :
          /\ (pc[r] = "idle" /\ entry'[r] = "generate") =>
                \A ci \in Codes, fi \in Codes \cup {NoFile}, l \in Languages :
                    Generate(r, ci, fi, l) =>
                        /\ code'[r] = Submitted(ci, fi)
                        /\ IsBlank(Submitted(ci, fi)) => pc'[r] = "g_warned"
          /\ (entry'[r] = "generate" /\ IsBlank(code'[r])) => WarnedOnly(r)
      ]_vars

C11_Witness ==
    \E r \in Runs :
        /\ entry[r] = "generate" /\ pc[r] = "done"
        /\ Len(code[r]) = 2 /\ IsBlank(code[r])
        /\ log[r] = <<UiEv(G_Warning, None)>>
        /\ DOMAIN files = {}
====
